---- MODULE Spec2Model ----
(***************************************************************************)
(* tinyaudio: the output-device handle (src/src/lib.rs) and its backend    *)
(* sessions (alsa.rs, directsound.rs, pulse.rs, aaudio.rs, coreaudio.rs).  *)
(*                                                                         *)
(* One caller owns at most one OutputDevice at a time and runs             *)
(* run_output_device / close / drop cycles.  Each backend session owns its *)
(* native resources and (ALSA, DirectSound, PulseAudio) a feeder thread,   *)
(* or (AAudio, CoreAudio) is served by a thread of the native library.     *)
(* Native calls are the environment: each may succeed or fail.  Where the  *)
(* source does not decide what a native call does with a zero parameter,   *)
(* the call is taken to reject it.                                         *)
(***************************************************************************)
EXTENDS Integers, Sequences, FiniteSets, TLC

\* ------------------------------------------------------------------ bounds
MaxCycles == 2          \* run_output_device calls per behaviour
MaxCloses == 2          \* close() calls on one handle
MaxChannels == 2        \* largest channels_count drawn
MaxFrames == 2          \* largest channel_sample_count drawn
MaxReq == 3             \* largest PulseAudio write request, in samples
MaxReqFrames == 2       \* largest AAudio per-callback frame count
MaxStream == 6          \* samples delivered before the AAudio queue is left alone
GridBits == 12          \* input samples are multiples of 2^-GridBits
GridStride == 256       \* every GridStride-th multiple and its successor is drawn

\* ------------------------------------------------------- program constants
DefaultRate == 44100    \* the sample rate of the documented example
TryCount == 10          \* 'try_loop: for _ in 0..10
SizeOfF32 == 4          \* size_of::<f32>()
I16Max == 32767         \* i16::MAX
I16Min == -32768        \* i16::MIN
F32Bits == 24           \* significand bits of an f32
AlsaSteps == 17         \* checked native steps of AlsaSoundDevice::new, spawn last
DsSteps == 7            \* checked native steps of DirectSoundDevice::new, spawn last
AaSteps == 3            \* builder new, open_stream, request_start
CaSteps == 4            \* AudioQueueNewOutput, AllocateBuffer x2, AudioQueueStart

Backends == {"alsa", "dsound", "pulse", "aaudio", "coreaudio"}
ThreadBackends == {"alsa", "dsound", "pulse"}
Sessions == 1..MaxCycles
Threads == 1..(MaxCycles + 1)

\* OutputDeviceParameters, drawn from small sets that include the zero values.
ParamSet == [sample_rate : {0, DefaultRate},
             channels_count : 0..MaxChannels,
             channel_sample_count : 0..MaxFrames]

VARIABLES
    backend,        \* the backend the build selects (cfg(target_os), feature)
    cycle,          \* run_output_device calls made so far; the last one's session
    params,         \* the parameter record of the last run_output_device call
    device,         \* OutputDevice.device: "Absent" (no handle), "Some", "None"
    cpc,            \* caller position: "idle", or "join" inside a session's Drop
    op,             \* the caller's current or last operation
    cres,           \* how it ended: "none", "ok", "err", "returned", "panic"
    ncloses,        \* close() calls made on the current handle
    is_running,     \* is_running[s]: the session's Arc<AtomicBool>
    thread_handle,  \* thread_handle[s]: 0 (None) or the feeder's thread id
    live,           \* native resources acquired and not released: <<s, name>>
    freed,          \* the release calls made since that call, in order: <<s, name>>
    th,             \* th[t]: a thread's position and locals
    invoked,        \* the data_callback passed to that call has been invoked
    notify_points,  \* DirectSound: the two auto-reset events, signalled or not
    playHalf,       \* DirectSound: the half of the ring the play cursor is in
    corked,         \* PulseAudio: the stream is corked
    ready,          \* PulseAudio: connect_playback has succeeded
    state,          \* PulseAudio: Cell<WriteState>
    defers,         \* PulseAudio: the defer guards of run, in creation order
    samples_queue,  \* AAudio: length of the data callback's VecDeque
    data_buffer,    \* the conversion loop's input samples, in units of 1 / Den
    output_buffer,  \* the conversion loop's output so far, 16-bit samples
    captured,       \* AAudio: the parameters moved into the data callback
    samples,        \* AAudio: the VecDeque's contents, front first; a sample is
                    \* named by its position in what the producer has written
    output_data,    \* AAudio: the samples copied to the native buffers, in order
    obs             \* what has been observed of the session since its open

vars == <<backend, cycle, params, device, cpc, op, cres, ncloses, is_running,
          thread_handle, live, freed, th, invoked, notify_points, playHalf,
          corked, ready, state, defers, samples_queue, data_buffer,
          output_buffer, captured, samples, output_data, obs>>

callerVars == <<cycle, params, device, cpc, op, cres, ncloses, thread_handle>>
dsVars == <<notify_points, playHalf>>
paVars == <<corked, ready, state, defers>>
queueVars == <<captured, samples, output_data>>
convVars == <<data_buffer, output_buffer, queueVars>>

\* ----------------------------------------------------------------- helpers
Min(S) == CHOOSE x \in S : \A y \in S : x <= y

Unborn == [pc |-> "unborn", session |-> 0, result |-> "none",
           attempt |-> 0, len |-> 0, n |-> 0]

Started(s, pc0) == [Unborn EXCEPT !.pc = pc0, !.session = s]

FreeThreads == {t \in Threads : th[t].pc = "unborn"}

Terminated(t) == th[t].pc = "done"

InCallback(t) == th[t].pc \in {"a_cb", "d_cb", "p_cb", "q_cb", "c_cb"}

Held(s, names) == {<<s, r>> : r \in names}

\* lib.rs 34-42: the documented length of the buffer the producer fills.
PeriodLen(p) == p.channels_count * p.channel_sample_count

Valid(p) == p.channels_count >= 1 /\ p.sample_rate > 0 /\ p.channel_sample_count > 0

\* Release calls on the resources named by the sequence `names`, in that order:
\* each stops being live and each call is logged.
Release(s, names) ==
    /\ live' = live \ {<<s, names[i]>> : i \in 1..Len(names)}
    /\ freed' = freed \o [i \in 1..Len(names) |-> <<s, names[i]>>]

NoRelease == UNCHANGED <<live, freed>>

\* Nothing has been observed of a session that has just been opened.
NoObs == [cb_panicked |-> FALSE, pending |-> FALSE, sink_ok |-> TRUE,
          write_failed |-> FALSE, last_half |-> -1, waited |-> FALSE,
          joined |-> "none", exhausted |-> FALSE, owed |-> 0,
          pumps |-> 0, calls |-> 0, stopped |-> FALSE,
          late |-> 0]

\* The producer is entered: a buffer is now pending; the one before it is lost if
\* it never reached the native sink.
Entered(o) == [o EXCEPT !.pending = TRUE, !.sink_ok = o.sink_ok /\ ~o.pending]

\* The native sink takes len samples: the pending buffer, whole, or else
\* something that is not one produced period.
Delivered(o, len) ==
    [o EXCEPT !.pending = FALSE,
              !.sink_ok = o.sink_ok /\ o.pending /\ len = PeriodLen(params)]

ProgInit ==
    /\ obs = NoObs
    /\ backend \in Backends
    /\ cycle = 0
    /\ params = [sample_rate |-> 0, channels_count |-> 0, channel_sample_count |-> 0]
    /\ device = "Absent"
    /\ cpc = "idle"
    /\ op = "none"
    /\ cres = "none"
    /\ ncloses = 0
    /\ is_running = [s \in Sessions |-> TRUE]
    /\ thread_handle = [s \in Sessions |-> 0]
    /\ live = {}
    /\ freed = <<>>
    /\ th = [t \in Threads |-> Unborn]
    /\ invoked = FALSE
    /\ notify_points = <<FALSE, FALSE>>
    /\ playHalf = 0
    /\ corked = FALSE
    /\ ready = FALSE
    /\ state = "Ok"
    /\ defers = <<>>
    /\ samples_queue = 0

\* No queue is followed sample by sample while the devices run.
NoQueue ==
    /\ captured = [sample_rate |-> 0, channels_count |-> 0, channel_sample_count |-> 0]
    /\ samples = <<>>
    /\ output_data = <<>>

\* No conversion loop is followed sample by sample while the devices run.
Init ==
    /\ ProgInit
    /\ data_buffer = <<>>
    /\ output_buffer = <<>>
    /\ NoQueue

\* ------------------------------------------------- run_output_device (open)
\* The frame every backend's `new` shares: the call is made, the session gets
\* its parameter record, and the call ends with `res`; `names` are the native
\* resources the call leaves acquired; `ids` are the threads it starts at `pc0`.
Opened(p, res, names, ids, pc0) ==
    LET s == cycle + 1 IN
    /\ cycle' = s
    /\ params' = p
    /\ op' = "create"
    /\ cres' = res
    /\ ncloses' = 0
    /\ cpc' = "idle"
    /\ device' = IF res = "ok" THEN "Some" ELSE "Absent"
    /\ live' = live \cup Held(s, names)
    /\ th' = [t \in Threads |-> IF t \in ids THEN Started(s, pc0) ELSE th[t]]
    /\ thread_handle' = [thread_handle EXCEPT ![s] = IF ids = {} THEN 0 ELSE Min(ids)]
    /\ freed' = <<>>
    /\ invoked' = FALSE
    /\ obs' = NoObs
    /\ UNCHANGED <<backend, is_running, convVars>>

CanOpen == device = "Absent" /\ cpc = "idle" /\ cycle < MaxCycles

\* The outcomes of a sequence of n checked native steps: 0 (all succeed) or the
\* first step that fails; a step that rejects the parameters cannot succeed.
Outcomes(n, rejecting) ==
    {f \in 0..n : \A k \in rejecting : f # 0 /\ f <= k}

\* alsa.rs 75-94: the native steps that receive a parameter.
AlsaStepRejects(k, p) ==
    \/ k = 6 /\ p.sample_rate = 0
    \/ k = 7 /\ p.channels_count = 0
    \/ k = 8 /\ p.channel_sample_count = 0

\* alsa.rs 55-117: what new holds once its first k steps have succeeded:
\* snd_pcm_open is step 1, snd_pcm_hw_params_malloc step 2, snd_pcm_hw_params
\* step 10 (followed by snd_pcm_hw_params_free), snd_pcm_sw_params_malloc step 11.
AlsaHeld(k) ==
    (IF k >= 1 THEN {"playback_device"} ELSE {})
    \cup (IF k >= 2 /\ k <= 9 THEN {"hw_params"} ELSE {})
    \cup (IF k >= 11 THEN {"sw_params"} ELSE {})

\* A run_in_thread that spawns the send loop twice.
AlsaRunInThreadTwice(free) == {t \in free : Cardinality({u \in free : u < t}) < 2}

\* alsa.rs 171-175: the threads run_in_thread starts, out of the unused ids.
AlsaRunInThread(free) == {Min(free)}

\* alsa.rs 46-137
AlsaNew(p) ==
    /\ backend = "alsa"
    /\ \E f \in Outcomes(AlsaSteps, {k \in 1..AlsaSteps : AlsaStepRejects(k, p)}) :
         IF f = 0
         THEN Opened(p, "ok", AlsaHeld(AlsaSteps), AlsaRunInThread(FreeThreads), "a_check")
         ELSE Opened(p, "err", AlsaHeld(f - 1), {}, "unborn")
    /\ UNCHANGED <<dsVars, paVars, samples_queue>>

\* directsound.rs 131-153, 172-176: CreateSoundBuffer gets the format and the size.
DsStepRejects(k, p) == k = 3 /\ ~Valid(p)

\* directsound.rs 156-214: DirectSoundCreate is step 1, CreateSoundBuffer step 3,
\* QueryInterface step 4, followed by the two CreateEventA calls.
DsHeld(k) ==
    (IF k >= 1 THEN {"direct_sound"} ELSE {})
    \cup (IF k >= 3 THEN {"buffer"} ELSE {})
    \cup (IF k >= 4 THEN {"notify", "event0", "event1"} ELSE {})

\* directsound.rs 274-279
DsRunInThread(free) == {Min(free)}

\* directsound.rs 121-236; a failed spawn is an expect, hence a panic.
DsNew(p) ==
    /\ backend = "dsound"
    /\ \E f \in Outcomes(DsSteps, {k \in 1..DsSteps : DsStepRejects(k, p)}) :
         IF f = 0
         THEN Opened(p, "ok", DsHeld(DsSteps), DsRunInThread(FreeThreads), "d_check")
         ELSE Opened(p, IF f = DsSteps THEN "panic" ELSE "err", DsHeld(f - 1), {}, "unborn")
    /\ notify_points' = <<FALSE, FALSE>>
    /\ playHalf' = 0
    /\ UNCHANGED <<paVars, samples_queue>>

\* pulse.rs 54-59
PulseSpawn(free) == {Min(free)}

\* pulse.rs 48-65: new only spawns the thread; run does the native work.
PulseNew(p) ==
    /\ backend = "pulse"
    /\ \/ Opened(p, "ok", {}, PulseSpawn(FreeThreads), "p_init")
       \/ Opened(p, "err", {}, {}, "unborn")
    /\ corked' = FALSE
    /\ ready' = FALSE
    /\ state' = "Ok"
    /\ defers' = <<>>
    /\ UNCHANGED <<dsVars, samples_queue>>

\* aaudio.rs 27-28: open_stream gets the channel count and the capacity; the
\* sample rate is never passed to the builder.
AaStepRejects(k, p) == k = 2 /\ (p.channels_count = 0 \/ p.channel_sample_count = 0)

\* aaudio.rs 25-80: the stream exists once open_stream (step 2) has succeeded;
\* when request_start fails the stream value is dropped.
AaHeld(k) == IF k >= AaSteps THEN {"stream"} ELSE {}

\* aaudio.rs 20-81; the native library's callback thread is started by request_start.
AAudioNew(p) ==
    /\ backend = "aaudio"
    /\ \E f \in Outcomes(AaSteps, {k \in 1..AaSteps : AaStepRejects(k, p)}) :
         IF f = 0
         THEN Opened(p, "ok", AaHeld(AaSteps), {Min(FreeThreads)}, "n_idle")
         ELSE Opened(p, "err", AaHeld(f - 1), {}, "unborn")
    /\ samples_queue' = 0
    /\ UNCHANGED <<dsVars, paVars>>

\* coreaudio.rs 81-91, 130: the stream description and the buffer size.
CaStepRejects(k, p) ==
    \/ k = 1 /\ (p.channels_count = 0 \/ p.sample_rate = 0)
    \/ k = 2 /\ p.channel_sample_count = 0

\* coreaudio.rs 27-35, 94-163: on every error return `inner` is dropped, and
\* SendContext's Drop stops and disposes the queue with its buffers.
CaHeld(k) == IF k >= CaSteps THEN {"queue", "buf0", "buf1"} ELSE {}

\* coreaudio.rs 73-164
CoreaudioNew(p) ==
    /\ backend = "coreaudio"
    /\ \E f \in Outcomes(CaSteps, {k \in 1..CaSteps : CaStepRejects(k, p)}) :
         IF f = 0
         THEN Opened(p, "ok", CaHeld(CaSteps), {Min(FreeThreads)}, "n_idle")
         ELSE Opened(p, "err", CaHeld(f - 1), {}, "unborn")
    /\ UNCHANGED <<dsVars, paVars, samples_queue>>

\* lib.rs 113-187
run_output_device ==
    /\ CanOpen
    /\ \E p \in ParamSet :
         \/ AlsaNew(p)
         \/ DsNew(p)
         \/ PulseNew(p)
         \/ AAudioNew(p)
         \/ CoreaudioNew(p)

\* ------------------------------------------------------ the feeder threads
\* alsa.rs 179, directsound.rs 286: the producer is entered; the entries made
\* after the session's flag became false are counted, up to two.
EnteredLate(o, s) ==
    IF is_running[s] THEN Entered(o)
    ELSE [Entered(o) EXCEPT !.late = IF @ < 2 THEN @ + 1 ELSE @]

ThreadVars == <<backend, callerVars, is_running, live, freed, convVars>>

\* A panic unwinding out of a thread's closure ends the thread; join sees Err.
Panicked(t) == [Unborn EXCEPT !.pc = "done", !.session = th[t].session, !.result = "panic"]

Finished(t, res) == [Unborn EXCEPT !.pc = "done", !.session = th[t].session, !.result = res]

\* alsa.rs 124: data_buffer, the buffer handed to the callback.
AlsaBufferLen(p) == p.channel_sample_count * p.channels_count

\* A loop head that goes on whatever the flag holds.
AlsaLoadIgnoresFlag(t) ==
    /\ th[t].pc = "a_check"
    /\ th' = [th EXCEPT ![t].pc = "a_loaded"]
    /\ UNCHANGED <<ThreadVars, invoked, dsVars, paVars, samples_queue>>
    /\ UNCHANGED obs

\* alsa.rs 178: while self.is_running.load(SeqCst)
AlsaLoad(t) ==
    /\ th[t].pc = "a_check"
    /\ th' = [th EXCEPT ![t] = IF is_running[th[t].session]
                               THEN [th[t] EXCEPT !.pc = "a_loaded"]
                               ELSE Finished(t, "ok")]
    /\ UNCHANGED <<ThreadVars, invoked, dsVars, paVars, samples_queue>>
    /\ UNCHANGED obs

\* alsa.rs 179: (self.callback)(&mut self.data_buffer) is entered
AlsaCall(t) ==
    /\ th[t].pc = "a_loaded"
    /\ th' = [th EXCEPT ![t].pc = "a_cb",
                        ![t].len = AlsaBufferLen(params)]
    /\ invoked' = TRUE
    /\ obs' = EnteredLate(obs, th[t].session)
    /\ UNCHANGED <<ThreadVars, dsVars, paVars, samples_queue>>

\* alsa.rs 179-186: the callback returns and the buffer is converted
AlsaProduced(t) ==
    /\ th[t].pc = "a_cb"
    /\ th' = [th EXCEPT ![t].pc = "a_write", ![t].attempt = 0]
    /\ UNCHANGED <<ThreadVars, invoked, dsVars, paVars, samples_queue>>
    /\ UNCHANGED obs

\* alsa.rs 179: the callback panics; nothing in run_send_loop catches it
AlsaCallbackPanics(t) ==
    /\ th[t].pc = "a_cb"
    /\ th' = [th EXCEPT ![t] = Panicked(t)]
    /\ obs' = [obs EXCEPT !.cb_panicked = TRUE]
    /\ UNCHANGED <<ThreadVars, invoked, dsVars, paVars, samples_queue>>

\* alsa.rs 82-86, 193: snd_pcm_writei takes channel_sample_count frames of
\* channels_count samples each.
AlsaWriteLen(p) == p.channel_sample_count * p.channels_count

\* A 'try_loop that makes one pass more than TryCount.
AlsaWriteOnceMore(t) ==
    /\ th[t].pc = "a_write"
    /\ \/ /\ th' = [th EXCEPT ![t].pc = "a_check", ![t].attempt = 0]
          /\ obs' = Delivered(obs, AlsaWriteLen(params))
       \/ /\ th' = [th EXCEPT ![t] =
                       IF th[t].attempt < TryCount
                       THEN [th[t] EXCEPT !.attempt = @ + 1]
                       ELSE [th[t] EXCEPT !.pc = "a_check", !.attempt = 0]]
          /\ obs' = [obs EXCEPT !.write_failed = TRUE,
                                !.exhausted = @ \/ th[t].attempt >= TryCount]
    /\ UNCHANGED <<ThreadVars, invoked, dsVars, paVars, samples_queue>>

\* alsa.rs 188-203: one pass of 'try_loop. attempt counts the failed writes of
\* this buffer; the loop is left by break or after TryCount passes.
AlsaWrite(t) ==
    /\ th[t].pc = "a_write"
    /\ \/ /\ th' = [th EXCEPT ![t].pc = "a_check", ![t].attempt = 0]   \* break 'try_loop
          /\ obs' = Delivered(obs, AlsaWriteLen(params))
       \/ /\ th' = [th EXCEPT ![t] =                                    \* err < 0: recover
                       IF th[t].attempt + 1 < TryCount
                       THEN [th[t] EXCEPT !.attempt = @ + 1]
                       ELSE [th[t] EXCEPT !.pc = "a_check", !.attempt = 0]]
          /\ obs' = [obs EXCEPT !.write_failed = TRUE,
                                !.exhausted = @ \/ th[t].attempt + 1 >= TryCount]
    /\ UNCHANGED <<ThreadVars, invoked, dsVars, paVars, samples_queue>>

\* directsound.rs 282: data_buffer
DsBufferLen(p) == p.channel_sample_count * p.channels_count

\* A loop head that goes on whatever the flag holds.
DsLoadIgnoresFlag(t) ==
    /\ th[t].pc = "d_check"
    /\ th' = [th EXCEPT ![t].pc = "d_loaded"]
    /\ UNCHANGED <<ThreadVars, invoked, dsVars, paVars, samples_queue>>
    /\ UNCHANGED obs

\* directsound.rs 285: while self.is_running.load(SeqCst)
DsLoad(t) ==
    /\ th[t].pc = "d_check"
    /\ th' = [th EXCEPT ![t] = IF is_running[th[t].session]
                               THEN [th[t] EXCEPT !.pc = "d_loaded"]
                               ELSE Finished(t, "ok")]
    /\ UNCHANGED <<ThreadVars, invoked, dsVars, paVars, samples_queue>>
    /\ UNCHANGED obs

\* directsound.rs 286: (self.data_callback)(&mut data_buffer) is entered
DsCall(t) ==
    /\ th[t].pc = "d_loaded"
    /\ th' = [th EXCEPT ![t].pc = "d_cb",
                        ![t].len = DsBufferLen(params)]
    /\ invoked' = TRUE
    /\ obs' = EnteredLate(obs, th[t].session)
    /\ UNCHANGED <<ThreadVars, dsVars, paVars, samples_queue>>

\* A loop that copies the produced period without waiting for an event.
DsProducedThenWrite(t) ==
    /\ th[t].pc = "d_cb"
    /\ th' = [th EXCEPT ![t].pc = "d_write"]
    /\ UNCHANGED <<ThreadVars, invoked, dsVars, paVars, samples_queue>>
    /\ UNCHANGED obs

\* directsound.rs 286: the callback returns
DsProduced(t) ==
    /\ th[t].pc = "d_cb"
    /\ th' = [th EXCEPT ![t].pc = "d_wait"]
    /\ UNCHANGED <<ThreadVars, invoked, dsVars, paVars, samples_queue>>
    /\ UNCHANGED obs

\* directsound.rs 286: the callback panics
DsCallbackPanics(t) ==
    /\ th[t].pc = "d_cb"
    /\ th' = [th EXCEPT ![t] = Panicked(t)]
    /\ obs' = [obs EXCEPT !.cb_panicked = TRUE]
    /\ UNCHANGED <<ThreadVars, invoked, dsVars, paVars, samples_queue>>

\* directsound.rs 290-296: WaitForMultipleObjects(2, .., wait_all = 0, INFINITE)
\* returns the lowest signalled event and resets it (auto-reset events, 188-189).
\* WAIT_OBJECT_0 selects the second half (n = 1), WAIT_OBJECT_1 the first (n = 0).
DsWait(t) ==
    /\ th[t].pc = "d_wait"
    /\ \E i \in 1..2 :
         /\ notify_points[i]
         /\ \A j \in 1..(i - 1) : ~notify_points[j]
         /\ notify_points' = [notify_points EXCEPT ![i] = FALSE]
         /\ th' = [th EXCEPT ![t].pc = "d_write", ![t].n = 2 - i]
    /\ obs' = [obs EXCEPT !.waited = TRUE]
    /\ UNCHANGED <<ThreadVars, invoked, playHalf, paVars, samples_queue>>

\* directsound.rs 297: any other wait result is panic!("Unknown buffer point!")
DsWaitFails(t) ==
    /\ th[t].pc = "d_wait"
    /\ th' = [th EXCEPT ![t] = Panicked(t)]
    /\ UNCHANGED <<ThreadVars, invoked, dsVars, paVars, samples_queue>>
    /\ UNCHANGED obs

\* directsound.rs 302-335: Lock, convert into the half, Unlock; a failed Lock or
\* Unlock is an unwrap on Err.
DsWrite(t) ==
    /\ th[t].pc = "d_write"
    /\ \/ /\ th' = [th EXCEPT ![t].pc = "d_check", ![t].n = 0]
          /\ obs' = [Delivered(obs, DsBufferLen(params))
                        EXCEPT !.last_half = th[t].n, !.waited = FALSE]
       \/ /\ th' = [th EXCEPT ![t] = Panicked(t)]
          /\ obs' = [obs EXCEPT !.write_failed = TRUE]
    /\ UNCHANGED <<ThreadVars, invoked, dsVars, paVars, samples_queue>>

\* directsound.rs 192-214: the looping buffer plays; when the play cursor reaches
\* offset 0 the first event is set, when it reaches the middle the second.
DsHardware ==
    /\ backend = "dsound"
    /\ <<cycle, "direct_sound">> \in live
    /\ playHalf' = 1 - playHalf
    /\ notify_points' = [notify_points EXCEPT ![(1 - playHalf) + 1] = TRUE]
    /\ UNCHANGED <<ThreadVars, th, invoked, paVars, samples_queue>>
    /\ UNCHANGED obs

\* ------------------------------------------------------------- PulseAudio
Range(q) == {q[i] : i \in 1..Len(q)}

Reverse(q) == [i \in 1..Len(q) |-> q[Len(q) + 1 - i]]

\* Guards that run in the order of their creation.
PaLeaveInOrder(t, res, guards) ==
    /\ th' = [th EXCEPT ![t] = Finished(t, res)]
    /\ Release(th[t].session, guards)
    /\ defers' = <<>>

\* pulse.rs 278-296: leaving run, by return or by unwinding, drops the defer
\* guards in reverse order of creation; each guard releases what it names.
PaLeave(t, res, guards) ==
    /\ th' = [th EXCEPT ![t] = Finished(t, res)]
    /\ Release(th[t].session, Reverse(guards))
    /\ defers' = <<>>

\* A step of run that neither returns nor touches the native objects.
PaStep(t, next) ==
    /\ th' = [th EXCEPT ![t] = next]
    /\ UNCHANGED <<live, freed, defers>>

PaFrame == UNCHANGED <<backend, callerVars, is_running, dsVars, samples_queue, convVars>>

\* pulse.rs 77-102: pa_mainloop_new, pa_mainloop_get_api, pa_context_new,
\* pa_context_connect; f is the first call that fails, 0 if none does.
PaInit(t) ==
    /\ th[t].pc = "p_init"
    /\ \E f \in 0..4 :
         CASE f = 0 -> /\ th' = [th EXCEPT ![t].pc = "p_ctx"]
                       /\ live' = live \cup Held(th[t].session, {"mainloop", "context"})
                       /\ defers' = <<"mainloop", "context">>
                       /\ UNCHANGED freed
           [] f = 1 -> PaLeave(t, "err", <<>>)
           [] f \in {2, 3} -> PaLeave(t, "err", <<"mainloop">>)
           [] f = 4 -> PaLeave(t, "err", <<"mainloop", "context">>)
    /\ UNCHANGED <<invoked, corked, ready, state>>
    /\ PaFrame
    /\ UNCHANGED obs

\* pulse.rs 114, 236: a call of pa_mainloop_iterate has returned; those that
\* return after the session's flag became false are counted, up to two.
Pumped(o, s) ==
    IF is_running[s] THEN o ELSE [o EXCEPT !.pumps = IF @ < 2 THEN @ + 1 ELSE @]

\* pulse.rs 104-115: the connection loop; it does not read is_running.
PaContextLoop(t) ==
    /\ th[t].pc = "p_ctx"
    /\ \/ PaLeave(t, "err", defers) /\ UNCHANGED obs        \* PA_CONTEXT_FAILED
       \/ PaLeave(t, "ok", defers) /\ UNCHANGED obs         \* PA_CONTEXT_TERMINATED
       \/ /\ PaStep(t, [th[t] EXCEPT !.pc = "p_setup"])      \* PA_CONTEXT_READY
          /\ UNCHANGED obs
       \/ /\ PaStep(t, th[t])                                \* iterate, and again
          /\ obs' = Pumped(obs, th[t].session)
       \/ /\ PaLeave(t, "err", defers)                       \* iterate < 0
          /\ obs' = Pumped(obs, th[t].session)
    /\ UNCHANGED <<invoked, corked, ready, state>>
    /\ PaFrame

\* pulse.rs 133: pa_sample_spec_valid
PaSpecValid(p) == p.sample_rate > 0 /\ p.channels_count > 0

\* A buffer sized in bytes where samples are meant.
PulseBufferInBytes(p) == p.channel_sample_count * SizeOfF32

\* pulse.rs 156: let mut buffer = vec![0.; params.channel_sample_count]
PulseBufferLen(p) == p.channel_sample_count

\* A stream connected without PA_STREAM_START_CORKED.
PaSetupUncorked(t) ==
    LET p == params IN
    /\ th[t].pc = "p_setup"
    /\ IF ~PaSpecValid(p)
       THEN PaLeave(t, "err", defers) /\ UNCHANGED <<corked, ready>>
       ELSE \/ PaLeave(t, "err", defers) /\ UNCHANGED <<corked, ready>>   \* pa_stream_new
            \/ /\ p.channel_sample_count % p.channels_count # 0
               /\ PaLeave(t, "err", defers \o <<"stream">>)
               /\ UNCHANGED <<corked, ready>>
            \/ /\ p.channel_sample_count % p.channels_count = 0
               /\ PaLeave(t, "err", defers \o <<"stream", "write_cb">>)   \* connect fails
               /\ UNCHANGED <<corked, ready>>
            \/ /\ p.channel_sample_count % p.channels_count = 0
               /\ th' = [th EXCEPT ![t].pc = "p_check"]
               /\ live' = live \cup Held(th[t].session, {"stream", "write_cb"})
               /\ defers' = defers \o <<"stream", "write_cb">>
               /\ corked' = FALSE
               /\ ready' = TRUE
               /\ UNCHANGED freed
    /\ UNCHANGED <<invoked, state>>
    /\ PaFrame
    /\ UNCHANGED obs

\* pulse.rs 117-233: the spec, pa_stream_new, the frame-size check, the write
\* callback and pa_stream_connect_playback(.., PA_STREAM_START_CORKED, ..)
PaSetup(t) ==
    LET p == params IN
    /\ th[t].pc = "p_setup"
    /\ IF ~PaSpecValid(p)
       THEN PaLeave(t, "err", defers) /\ UNCHANGED <<corked, ready>>
       ELSE \/ PaLeave(t, "err", defers) /\ UNCHANGED <<corked, ready>>   \* pa_stream_new
            \/ /\ p.channel_sample_count % p.channels_count # 0
               /\ PaLeave(t, "err", defers \o <<"stream">>)
               /\ UNCHANGED <<corked, ready>>
            \/ /\ p.channel_sample_count % p.channels_count = 0
               /\ PaLeave(t, "err", defers \o <<"stream", "write_cb">>)   \* connect fails
               /\ UNCHANGED <<corked, ready>>
            \/ /\ p.channel_sample_count % p.channels_count = 0
               /\ th' = [th EXCEPT ![t].pc = "p_check"]
               /\ live' = live \cup Held(th[t].session, {"stream", "write_cb"})
               /\ defers' = defers \o <<"stream", "write_cb">>
               /\ corked' = TRUE
               /\ ready' = TRUE
               /\ UNCHANGED freed
    /\ UNCHANGED <<invoked, state>>
    /\ PaFrame
    /\ UNCHANGED obs

\* pulse.rs 235: while is_running.load(Relaxed)
PaLoad(t) ==
    /\ th[t].pc = "p_check"
    /\ IF is_running[th[t].session]
       THEN PaStep(t, [th[t] EXCEPT !.pc = "p_iter"])
       ELSE PaLeave(t, "ok", defers)
    /\ UNCHANGED <<invoked, corked, ready, state>>
    /\ PaFrame
    /\ UNCHANGED obs

\* The byte counts a write request may carry.
NBytes == {k * SizeOfF32 : k \in 0..MaxReq}

\* pulse.rs 188-203, 157-159: inside pa_mainloop_iterate the library calls
\* write_cb with nbytes; the closure computes nbytes / bytelen, which panics
\* when bytelen is 0; the panic is caught and stored.
PaWriteRequest(t) ==
    LET bytelen == PulseBufferLen(params) * SizeOfF32 IN
    /\ th[t].pc = "p_iter"
    /\ \E nbytes \in NBytes :
         IF bytelen = 0
         THEN /\ state' = "Panicked"
              /\ PaStep(t, th[t])
              /\ UNCHANGED obs
         ELSE /\ PaStep(t, [th[t] EXCEPT !.pc = "p_wcb", !.n = nbytes \div bytelen])
              /\ obs' = [obs EXCEPT !.owed = nbytes]
              /\ UNCHANGED state
    /\ UNCHANGED <<invoked, corked, ready>>
    /\ PaFrame

\* pulse.rs 159-160, 174, 195-201: the head of `for _ in 0..nbytes / bytelen`:
\* either data_callback is entered, or the closure returns Ok(()) and write_cb
\* stores WriteState::Ok.
PaWriteLoop(t) ==
    /\ th[t].pc = "p_wcb"
    /\ IF th[t].n > 0
       THEN /\ PaStep(t, [th[t] EXCEPT !.pc = "p_cb",
                                       !.len = PulseBufferLen(params)])
            /\ invoked' = TRUE
            /\ obs' = Entered(obs)
            /\ UNCHANGED state
       ELSE /\ PaStep(t, [th[t] EXCEPT !.pc = "p_iter"])
            /\ state' = "Ok"
            /\ obs' = [obs EXCEPT !.owed = 0]
            /\ UNCHANGED invoked
    /\ UNCHANGED <<corked, ready>>
    /\ PaFrame

\* pulse.rs 160-171, 197, 201: data_callback returns and pa_stream_write either
\* succeeds or fails; the failure ends the closure, write_cb stores PulseError.
PaProduced(t) ==
    /\ th[t].pc = "p_cb"
    /\ \/ /\ PaStep(t, [th[t] EXCEPT !.pc = "p_wcb", !.n = @ - 1])
          /\ obs' = [Delivered(obs, PulseBufferLen(params))
                        EXCEPT !.owed = @ - PulseBufferLen(params) * SizeOfF32]
          /\ UNCHANGED state
       \/ /\ PaStep(t, [th[t] EXCEPT !.pc = "p_iter", !.n = 0])
          /\ obs' = [obs EXCEPT !.write_failed = TRUE, !.owed = 0]
          /\ state' = "PulseError"
    /\ UNCHANGED <<invoked, corked, ready>>
    /\ PaFrame

\* A trampoline without catch_unwind: the panic unwinds out of write_cb.
PaCallbackUnwinds(t) ==
    /\ th[t].pc = "p_cb"
    /\ PaStep(t, Panicked(t))
    /\ obs' = [obs EXCEPT !.cb_panicked = TRUE, !.owed = 0]
    /\ UNCHANGED <<invoked, corked, ready, state>>
    /\ PaFrame

\* pulse.rs 193, 198, 201: data_callback panics; catch_unwind stores Panicked.
PaCallbackPanics(t) ==
    /\ th[t].pc = "p_cb"
    /\ PaStep(t, [th[t] EXCEPT !.pc = "p_iter", !.n = 0])
    /\ state' = "Panicked"
    /\ obs' = [obs EXCEPT !.cb_panicked = TRUE, !.owed = 0]
    /\ UNCHANGED <<invoked, corked, ready>>
    /\ PaFrame

\* pulse.rs 236: pa_mainloop_iterate returns, with or without an error.
PaIterateReturns(t) ==
    /\ th[t].pc = "p_iter"
    /\ \/ PaStep(t, [th[t] EXCEPT !.pc = "p_post"])
       \/ PaLeave(t, "err", defers)
    /\ obs' = Pumped(obs, th[t].session)
    /\ UNCHANGED <<invoked, corked, ready, state>>
    /\ PaFrame

\* pulse.rs 238-246: uncork, then state.replace(WriteState::Ok)
PaAfterIterate(t) ==
    /\ th[t].pc = "p_post"
    /\ corked' = FALSE
    /\ state' = "Ok"
    /\ CASE state = "Ok" -> PaStep(t, [th[t] EXCEPT !.pc = "p_check"])
         [] state = "PulseError" -> PaLeave(t, "err", defers)
         [] state = "Panicked" -> PaLeave(t, "panic", defers)
    /\ UNCHANGED <<invoked, ready>>
    /\ PaFrame
    /\ UNCHANGED obs

\* ------------------------------------- AAudio and CoreAudio: native callbacks
NativeFrame ==
    UNCHANGED <<backend, callerVars, is_running, live, freed, dsVars, paVars, convVars>>

\* aaudio.rs 34: the native thread calls the data callback for n frames.
AaCallback(t) ==
    /\ backend = "aaudio"
    /\ th[t].pc = "n_idle"
    /\ \E frames \in 1..MaxReqFrames :
         th' = [th EXCEPT ![t].pc = "q_loop", ![t].n = frames]
    /\ obs' = [obs EXCEPT !.calls = 0]
    /\ UNCHANGED <<invoked, samples_queue>>
    /\ NativeFrame

\* A slice of one sample per frame, whatever the channel count.
AaBufferFrames(p) == p.channel_sample_count

\* aaudio.rs 52-55: dest_data, the slice handed to the callback.
AaBufferLen(p) == p.channel_sample_count * p.channels_count

\* A loop head that compares the requested frames with the queued samples.
AaShortInSamples(n, len, p) == n > len

\* A loop head that renders also when the queue holds exactly the request.
AaShortOrExact(n, len, p) == n >= len \div p.channels_count

\* aaudio.rs 36-37: while num_samples_per_channel as usize
\*                         > samples_queue.len() / params.channels_count
AaQueueShort(n, len, p) == n > len \div p.channels_count

\* aaudio.rs 36-70: the head of the render loop: either the queue is extended by
\* one period and data_callback is entered, or the requested samples are popped
\* and the callback returns Continue.
AaRender(t) ==
    LET p == params IN
    /\ th[t].pc = "q_loop"
    /\ IF AaQueueShort(th[t].n, samples_queue, p)
       THEN /\ samples_queue' = samples_queue + p.channel_sample_count * p.channels_count
            /\ th' = [th EXCEPT ![t].pc = "q_cb", ![t].len = AaBufferLen(p)]
            /\ invoked' = TRUE
            /\ obs' = [Entered(obs) EXCEPT !.calls = @ + 1]
       ELSE /\ samples_queue' = samples_queue - th[t].n * p.channels_count
            /\ th' = [th EXCEPT ![t].pc = "n_idle", ![t].n = 0]
            /\ obs' = Delivered(obs, th[t].n * p.channels_count)
            /\ UNCHANGED invoked
    /\ NativeFrame

\* aaudio.rs 56: data_callback returns
AaProduced(t) ==
    /\ th[t].pc = "q_cb"
    /\ th' = [th EXCEPT ![t].pc = "q_loop"]
    /\ UNCHANGED <<invoked, samples_queue>>
    /\ NativeFrame
    /\ UNCHANGED obs

\* coreaudio.rs 22, 97: mix_buffer, the buffer handed to the callback.
CaBufferLen(p) == p.channel_sample_count * p.channels_count

\* coreaudio.rs 45-54: the queue's thread calls audio_queue_callback, which
\* enters data_callback.
CaCallback(t) ==
    /\ backend = "coreaudio"
    /\ th[t].pc = "n_idle"
    /\ th' = [th EXCEPT ![t].pc = "c_cb", ![t].len = CaBufferLen(params)]
    /\ invoked' = TRUE
    /\ obs' = [Entered(obs) EXCEPT !.calls = 1]
    /\ UNCHANGED samples_queue
    /\ NativeFrame

\* coreaudio.rs 54-67: data_callback returns; convert, copy, enqueue.
CaProduced(t) ==
    /\ th[t].pc = "c_cb"
    /\ th' = [th EXCEPT ![t].pc = "n_idle"]
    /\ obs' = Delivered(obs, CaBufferLen(params))
    /\ UNCHANGED <<invoked, samples_queue>>
    /\ NativeFrame

\* --------------------------------------------------------- close and drop
\* The feeder (or native) threads of session s.
ThreadsOf(s) == {t \in Threads : th[t].session = s}

\* A join that does not wait for the thread.
JoinReturnsAtOnce(t) == TRUE

\* A join that returns as soon as the thread's flag is false.
JoinReturnsOnFlag(t) == ~is_running[th[t].session]

\* JoinHandle::join returns once the thread has terminated.
JoinReturns(t) == Terminated(t)

\* A store into one flag shared by all the sessions.
StoreFalseShared(s) == [x \in Sessions |-> FALSE]

\* alsa.rs 142, directsound.rs 243, pulse.rs 29: the first statement of Drop.
StoreFalse(s) == [is_running EXCEPT ![s] = FALSE]

\* aaudio.rs 84-90, coreaudio.rs 27-35: Drop of a session without a thread of
\* its own.  The native stop or release returns once no callback is running.
NativeDrop(s, handleAfter) ==
    /\ \A t \in ThreadsOf(s) : th[t].pc \in {"n_idle", "done"}
    /\ cpc' = "idle"
    /\ device' = handleAfter
    /\ UNCHANGED <<is_running, thread_handle>>
    /\ \/ /\ backend = "aaudio"                      \* release() is Ok
          /\ Release(s, <<"stream">>)
          /\ th' = [t \in Threads |-> IF t \in ThreadsOf(s) THEN Finished(t, "ok") ELSE th[t]]
          /\ cres' = "returned"
          /\ UNCHANGED obs
       \/ /\ backend = "aaudio"                      \* release() is Err: expect panics
          /\ NoRelease
          /\ th' = [t \in Threads |-> IF t \in ThreadsOf(s) THEN Finished(t, "ok") ELSE th[t]]
          /\ cres' = "panic"
          /\ UNCHANGED obs
       \/ /\ backend = "coreaudio"                   \* AudioQueueStop, AudioQueueDispose
          /\ live' = live \ Held(s, {"queue", "buf0", "buf1"})
          /\ freed' = Append(freed, <<s, "queue">>)
          /\ th' = [t \in Threads |-> IF t \in ThreadsOf(s) THEN Finished(t, "ok") ELSE th[t]]
          /\ cres' = "returned"
          /\ obs' = [obs EXCEPT !.stopped = TRUE]

\* The start of Drop of a session that owns a feeder thread: the store, after
\* which the caller is at the join.
ThreadDropStart(s, handleAfter) ==
    /\ backend \in ThreadBackends
    /\ is_running' = StoreFalse(s)
    /\ cpc' = "join"
    /\ cres' = "none"
    /\ device' = handleAfter
    /\ UNCHANGED <<thread_handle, live, freed, th, obs>>

\* A close that drops the session through a reference and leaves it in the handle.
SessionDropKeepsSome(s, handleAfter) ==
    \/ ThreadDropStart(s, "Some")
    \/ /\ backend \notin ThreadBackends
       /\ NativeDrop(s, "Some")

\* The session's Drop, entered with the handle becoming handleAfter.
SessionDrop(s, handleAfter) ==
    \/ ThreadDropStart(s, handleAfter)
    \/ /\ backend \notin ThreadBackends
       /\ NativeDrop(s, handleAfter)

DropFrame ==
    UNCHANGED <<backend, cycle, params, invoked, dsVars, paVars, samples_queue, convVars>>

\* lib.rs 74-76: self.device.take(); a Some is dropped, a None is nothing.
close ==
    /\ cpc = "idle"
    /\ device \in {"Some", "None"}
    /\ ncloses < MaxCloses
    /\ op' = "close"
    /\ ncloses' = ncloses + 1
    /\ IF device = "Some"
       THEN SessionDrop(cycle, "None")
       ELSE /\ cres' = "returned"
            /\ UNCHANGED <<device, cpc, is_running, thread_handle, live, freed, th, obs>>
    /\ DropFrame

\* lib.rs 58-60: the handle's lifetime ends and its field is dropped.
drop ==
    /\ cpc = "idle"
    /\ device \in {"Some", "None"}
    /\ op' = "drop"
    /\ UNCHANGED ncloses
    /\ IF device = "Some"
       THEN SessionDrop(cycle, "Absent")
       ELSE /\ cres' = "returned"
            /\ device' = "Absent"
            /\ UNCHANGED <<cpc, is_running, thread_handle, live, freed, th, obs>>
    /\ DropFrame

\* alsa.rs 151, directsound.rs 253: what Drop releases after the join.  The
\* Release that brings the DirectSound object's count to zero is taken to destroy
\* the buffer created from it and the buffer's notify interface with it.
DropReleases ==
    CASE backend = "alsa" -> <<"playback_device">>
      [] backend = "dsound" -> <<"direct_sound", "buffer", "notify">>
      [] OTHER -> <<>>

\* alsa.rs 144-152, directsound.rs 246-253, pulse.rs 30-41: take the handle,
\* join, unwrap the thread's result, release the device.
DropJoin ==
    LET s == cycle
        t == thread_handle[s] IN
    /\ cpc = "join"
    /\ t # 0 => JoinReturns(t)
    /\ thread_handle' = [thread_handle EXCEPT ![s] = 0]
    /\ cpc' = "idle"
    /\ IF t = 0                                   \* take() is None: expect panics
       THEN cres' = "panic" /\ NoRelease /\ UNCHANGED <<th, obs>>
       ELSE /\ th' = [th EXCEPT ![t].result = "taken"]
            /\ obs' = [obs EXCEPT !.joined = th[t].result]
            /\ IF th[t].result = "panic"          \* join is Err: unwrap panics
               THEN cres' = "panic" /\ NoRelease
               ELSE cres' = "returned" /\ Release(s, DropReleases)
    /\ UNCHANGED <<device, op, ncloses, is_running>>
    /\ DropFrame

\* ---------------------------------------------------- sample conversion
\* alsa.rs 185, directsound.rs 327, coreaudio.rs 59:
\*     *out_sample = (*in_sample * i16::MAX as f32) as i16
\* An input sample is the f32 k / Den, exact for every k drawn.
Den == 2 ^ GridBits

Abs(i) == IF i < 0 THEN -i ELSE i

Sign(i) == IF i < 0 THEN -1 ELSE 1

\* The exponent of the leading bit of a > 0.
LeadingBit(a) == CHOOSE e \in 0..29 : 2 ^ e <= a /\ a < 2 ^ (e + 1)

\* The f32 nearest to a / Den, as a numerator over Den: a is kept when it fits
\* the significand, and is otherwise rounded to F32Bits bits, ties to even.
RoundF32(a) ==
    IF a = 0 \/ LeadingBit(a) < F32Bits
    THEN a
    ELSE LET unit == 2 ^ (LeadingBit(a) + 1 - F32Bits)
             q == a \div unit
             r == a % unit
             up == 2 * r > unit \/ (2 * r = unit /\ q % 2 = 1)
         IN (IF up THEN q + 1 ELSE q) * unit

\* A product by 32768.0, the magnitude of i16::MIN, in place of i16::MAX.
MulF32ByI16Min(k) == Sign(k) * RoundF32(Abs(k) * (-I16Min))

\* The f32 product in_sample * 32767.0, as a signed numerator over Den.
MulF32(k) == Sign(k) * RoundF32(Abs(k) * I16Max)

\* `as i16` of the f32 n / Den: the fraction is dropped (toward zero) and the
\* result saturates at the ends of the i16 range.
AsI16(n) ==
    LET i == Sign(n) * (Abs(n) \div Den)
    IN IF i > I16Max THEN I16Max ELSE IF i < I16Min THEN I16Min ELSE i

FloatToI16(k) == AsI16(MulF32(k))

\* The samples drawn for the conversion loop.
Grid == {k \in -Den..Den : k % GridStride \in {0, 1}}

ConvInit ==
    /\ ProgInit
    /\ backend \in {"alsa", "dsound", "coreaudio"}
    /\ data_buffer \in {<<x, y>> : x \in Grid, y \in Grid}
    /\ output_buffer = <<>>
    /\ NoQueue

progVars == <<backend, callerVars, is_running, live, freed, th, invoked, dsVars,
              paVars, samples_queue, obs>>

\* alsa.rs 182-186: one pass of the zip loop converts the next sample.
ConvertSample ==
    /\ Len(output_buffer) < Len(data_buffer)
    /\ output_buffer' = Append(output_buffer,
                               FloatToI16(data_buffer[Len(output_buffer) + 1]))
    /\ UNCHANGED <<data_buffer, queueVars, progVars>>

ConvNext == ConvertSample

ConvSpec == ConvInit /\ [][ConvNext]_vars

\* ------------------------------------------------ the AAudio sample queue
\* aaudio.rs 34-71: the data callback as a function of the queue's contents.
\* The producer's output is one stream of samples; sample i is named i.
RECURSIVE Render(_, _, _, _)

\* aaudio.rs 36-57: while the queue holds fewer than n frames, a period is
\* pushed at its back and the producer fills it; written counts the samples the
\* producer has written before.
Render(q, written, n, p) ==
    IF AaQueueShort(n, Len(q), p)
    THEN Render(q \o [i \in 1..(p.channel_sample_count * p.channels_count) |-> written + i],
                written + p.channel_sample_count * p.channels_count, n, p)
    ELSE q

\* aaudio.rs 66-68: `for sample in output_data { *sample = pop_back() }`: the
\* j-th sample of the native buffer is the j-th taken from the back.
PopBack(q, k) == [j \in 1..k |-> q[Len(q) + 1 - j]]

QueueInit ==
    /\ ProgInit
    /\ backend = "aaudio"
    /\ data_buffer = <<>>
    /\ output_buffer = <<>>
    /\ captured \in {p \in ParamSet : ~AaStepRejects(2, p)}
    /\ samples = <<>>
    /\ output_data = <<>>

\* aaudio.rs 34-70: one call of the data callback for frames frames.
AaDataCallback ==
    /\ Len(output_data) < MaxStream
    /\ \E frames \in 1..MaxReqFrames :
         LET q == Render(samples, Len(samples) + Len(output_data), frames, captured)
             k == frames * captured.channels_count
         IN /\ output_data' = output_data \o PopBack(q, k)
            /\ samples' = SubSeq(q, 1, Len(q) - k)
    /\ UNCHANGED <<captured, data_buffer, output_buffer, progVars>>

QueueNext == AaDataCallback

QueueSpec == QueueInit /\ [][QueueNext]_vars

\* ---------------------------------------------------------- specification
Feeder(t) ==
    \/ AlsaLoad(t) \/ AlsaCall(t) \/ AlsaProduced(t) \/ AlsaCallbackPanics(t) \/ AlsaWrite(t)
    \/ DsLoad(t) \/ DsCall(t) \/ DsProduced(t) \/ DsCallbackPanics(t)
    \/ DsWait(t) \/ DsWaitFails(t) \/ DsWrite(t)
    \/ PaInit(t) \/ PaContextLoop(t) \/ PaSetup(t) \/ PaLoad(t) \/ PaWriteRequest(t)
    \/ PaWriteLoop(t) \/ PaProduced(t) \/ PaCallbackPanics(t) \/ PaIterateReturns(t)
    \/ PaAfterIterate(t)
    \/ AaCallback(t) \/ AaRender(t) \/ AaProduced(t)
    \/ CaCallback(t) \/ CaProduced(t)

Next ==
    \/ run_output_device
    \/ close
    \/ drop
    \/ DropJoin
    \/ DsHardware
    \/ \E t \in Threads : Feeder(t)

Spec == Init /\ [][Next]_vars

\* The scheduling the liveness of the feeders rests on: every thread that can
\* take a step eventually does (a blocking native call returns), the
\* DirectSound hardware keeps playing, and the PulseAudio server keeps sending
\* write requests, among them requests for at least one period of data.
\* At most one feeder can take a step in any state, so the conditions are stated
\* for the feeders together.
Fairness ==
    /\ WF_vars(\E t \in Threads : Feeder(t))
    /\ WF_vars(DsHardware)
    /\ SF_vars(\E t \in Threads : PaWriteRequest(t))
    /\ SF_vars(\E t \in Threads : PaWriteRequest(t) /\ th'[t].n > 0)

LiveSpec == Spec /\ Fairness

\* directsound.rs 290: the wait is entered with no event signalled; its
\* timeout is INFINITE, so nothing but a signal makes it return.
DsBlocked(t) == th[t].pc = "d_wait" /\ \A i \in 1..2 : ~notify_points[i]

\* The scheduling when the hardware may fall silent: every thread that is not
\* blocked in a native wait eventually takes its step, a join whose thread has
\* terminated returns, and no signal from the hardware is promised.
QuietFairness ==
    /\ WF_vars(\E t \in Threads : Feeder(t) /\ ~DsBlocked(t))
    /\ WF_vars(DropJoin)

QuietSpec == Spec /\ QuietFairness

\* ------------------------------------------------------------------ claims
NoDuplicates(q) == \A i, j \in 1..Len(q) : q[i] = q[j] => i = j

\* The caller's last close or drop has ended, by return or by panic.
ShutdownEnded == op \in {"close", "drop"} /\ cpc = "idle"

ShutdownReturned == ShutdownEnded /\ cres = "returned"

\* The call that has ended is the one that dropped the session: the first close
\* on the handle, or a drop of a handle never closed.
DroppedSession == (op = "close" /\ ncloses = 1) \/ (op = "drop" /\ ncloses = 0)

LiveOf(s) == {x \in live : x[1] = s}

\* C1: close is idempotent.  Once a close has ended the handle holds no session;
\* every later close call on the handle returns, and it changes neither the
\* handle, nor the flag, nor the join handle, nor any thread, nor the live
\* resources, and it makes no release call; no resource is ever released twice.
C1_CloseIdempotent ==
    /\ []((op = "close" /\ cpc = "idle") => device = "None")
    /\ [](NoDuplicates(freed))
    /\ [][(ncloses >= 1 /\ ncloses' = ncloses + 1)
            => /\ cres' = "returned"
               /\ cpc' = "idle"
               /\ UNCHANGED <<device, is_running, thread_handle, th, live, freed>>]_vars

C1_Witness ==
    /\ op = "close" /\ ncloses = 2 /\ cres = "returned" /\ cpc = "idle"
    /\ device = "None"
    /\ freed # <<>>

\* The native objects a session with a feeder thread releases at shutdown:
\* its own device handle, and what the PulseAudio feeder acquired in run.
DeviceHandles == {"playback_device", "direct_sound", "mainloop", "context", "stream", "write_cb"}

\* C2: for a session that owns a feeder thread, whenever a close or drop has
\* ended the feeder thread has terminated, and when the close or drop that
\* dropped the session has returned, the session's native device handle has been
\* released.
C2_CloseJoinsFeeder ==
    (backend \in ThreadBackends /\ ShutdownEnded)
        => /\ \A t \in ThreadsOf(cycle) : Terminated(t)
           /\ (DroppedSession /\ cres = "returned")
                 => \A r \in DeviceHandles : <<cycle, r>> \notin live

C2_Witness ==
    /\ backend \in ThreadBackends
    /\ op = "close" /\ ShutdownReturned /\ ncloses = 1
    /\ invoked
    /\ \E r \in DeviceHandles : <<cycle, r>> \in Range(freed)

\* The open device's producer is being invoked; its feeder has ended.
DeviceOpen == device = "Some"

Invoking == \E t \in ThreadsOf(cycle) : InCallback(t)

FeederEnded == \A t \in ThreadsOf(cycle) : Terminated(t)

\* An invocation of the producer begins in this step.
InvocationBegins == \E t \in Threads : InCallback(t)' /\ ~InCallback(t)

\* No invocation of the producer is in progress once a close or drop has ended,
\* and one begins only while the device is open or its close is in progress.
NeverInvokedAfterClose ==
    /\ [](ShutdownEnded => \A t \in Threads : ~InCallback(t))
    /\ [][InvocationBegins => (device = "Some" \/ cpc = "join")]_vars

\* C3 as claimed: while the device is open the producer is invoked again and
\* again, and it is never invoked after close has returned.
C3_InvokedWhileOpen ==
    /\ [](DeviceOpen => <>(Invoking \/ ~DeviceOpen))
    /\ NeverInvokedAfterClose

\* C3, amended: while the device is open and its feeder has not terminated the
\* producer is invoked again and again, and it is never invoked after close
\* has returned.
C3_InvokedWhileFeederLives ==
    /\ [](DeviceOpen => <>(Invoking \/ ~DeviceOpen \/ FeederEnded))
    /\ NeverInvokedAfterClose

C3_Witness ==
    /\ op = "close" /\ ShutdownReturned /\ DroppedSession
    /\ invoked
    /\ \E t \in ThreadsOf(cycle) : th[t].result = "taken"

\* C4 as claimed: on every invocation of the producer, in every backend, the
\* buffer passed has length channels_count * channel_sample_count.
C4_BufferLenIsPeriod ==
    \A t \in Threads : InCallback(t) => th[t].len = PeriodLen(params)

\* C5: at most one invocation of a device's producer is in progress at any time.
C5_OneInvocationAtATime ==
    \A s \in Sessions : Cardinality({t \in ThreadsOf(s) : InCallback(t)}) <= 1

C5_Witness ==
    /\ cycle = 2
    /\ \E t \in ThreadsOf(2) : InCallback(t)
    /\ \E u \in ThreadsOf(1) : Terminated(u)

\* C6 as claimed: when the handle's lifetime has ended without a close, the
\* shutdown flag is lowered, the feeder thread is joined, and no thread or
\* native resource of the session survives.
C6_DropLikeClose ==
    (op = "drop" /\ ShutdownReturned /\ DroppedSession)
        => /\ backend \in ThreadBackends => (~is_running[cycle] /\ thread_handle[cycle] = 0)
           /\ \A t \in ThreadsOf(cycle) : Terminated(t)
           /\ LiveOf(cycle) = {}

\* C7 as claimed: after each close that returns, every native resource the
\* create of that cycle acquired has been released.
C7_CloseReleasesAll ==
    (op = "close" /\ ShutdownReturned /\ DroppedSession) => LiveOf(cycle) = {}

\* C8 as claimed: when a native step of open fails (the parameters being valid),
\* run_output_device returns an error and nothing that call acquired remains.
C8_OpenFailsAtomically ==
    (op = "create" /\ Valid(params) /\ cres # "ok")
        => cres = "err" /\ LiveOf(cycle) = {} /\ ThreadsOf(cycle) = {}

\* The native acquisition of the open device has failed: its feeder ended with
\* an error before the stream was connected.
AcquisitionFailed ==
    \E t \in ThreadsOf(cycle) : Terminated(t) /\ th[t].result = "err" /\ ~ready

\* C9 as claimed: run_output_device never returns Ok (the parameters being
\* valid) for a device whose native acquisition then fails.
C9_AcquisitionErrorsSynchronous ==
    (op = "create" /\ Valid(params) /\ cres = "ok") => ~AcquisitionFailed

\* C10 as claimed: a call with channels_count = 0, sample_rate = 0 or
\* channel_sample_count = 0 returns an error, starts no feeder, and its
\* producer is never invoked.
C10_InvalidParamsRejected ==
    (cycle >= 1 /\ ~Valid(params))
        => /\ op = "create" => cres = "err"
           /\ ThreadsOf(cycle) = {}
           /\ ~invoked

\* C11: the shutdown flag of a session that has just been opened is true; a step
\* that changes a flag changes only the flag of the open device's session,
\* from true to false, and it is the step of close or drop that enters the
\* session's Drop, which moves no feeder; no step sets a flag from false to true.
C11_FlagOnlyLowered ==
    /\ []((op = "create" /\ cres = "ok" /\ backend \in ThreadBackends) => is_running[cycle])
    /\ [][\A s \in Sessions :
            is_running'[s] # is_running[s]
                => /\ is_running[s] /\ ~is_running'[s]
                   /\ s = cycle
                   /\ op' \in {"close", "drop"} /\ cpc = "idle" /\ cpc' = "join"
                   /\ th' = th]_vars

C11_Witness ==
    /\ cycle = 2 /\ is_running[2] /\ ~is_running[1]
    /\ op = "create" /\ cres = "ok"
    /\ \E t \in ThreadsOf(2) : InCallback(t)

\* The producer of the open session, one with a feeder thread, has panicked.
ProducerPanicked == backend \in ThreadBackends /\ obs.cb_panicked

\* C12 as claimed: once the producer has panicked the feeder thread terminates,
\* and the close or drop that then drops the session observes the fatal state:
\* the result its join takes from the feeder is an error or a panic.
C12_PanicIsFatal ==
    /\ [](ProducerPanicked => <>FeederEnded)
    /\ []((ProducerPanicked /\ ShutdownEnded /\ DroppedSession)
            => obs.joined \in {"err", "panic"})

\* C13 as claimed: in a session whose feeder thread writes to the native sink
\* (ALSA, DirectSound, PulseAudio), opened with valid parameters, when a close
\* or drop has returned and no native write has failed, every buffer the
\* producer filled has been taken by the sink once, whole (channels_count *
\* channel_sample_count samples), before the next one was produced, and nothing
\* else has been delivered.
C13_SinkGetsEveryBuffer ==
    (/\ backend \in ThreadBackends /\ Valid(params)
     /\ ShutdownReturned /\ DroppedSession
     /\ ~obs.write_failed /\ ~obs.cb_panicked)
        => obs.sink_ok /\ ~obs.pending

\* The samples converted so far, each with its input.
Converted == 1..Len(output_buffer)

\* C14: the conversion of every sample in [-1, 1] lies within [-32767, 32767],
\* and of two samples the larger never converts to the smaller value.
C14_ConversionBoundedMonotonic ==
    /\ \A i \in Converted : -I16Max <= output_buffer[i] /\ output_buffer[i] <= I16Max
    /\ \A i, j \in Converted :
         data_buffer[i] <= data_buffer[j] => output_buffer[i] <= output_buffer[j]

C14_Witness ==
    /\ Len(output_buffer) = 2
    /\ data_buffer[1] = -Den /\ output_buffer[1] = -I16Max
    /\ data_buffer[2] = Den /\ output_buffer[2] = I16Max

\* round(k / Den * 32767), halves rounded away from zero.
RoundedProduct(k) == Sign(k) * ((2 * Abs(k) * I16Max + Den) \div (2 * Den))

\* C15 as claimed: every converted sample equals round(x * 32767).
C15_ConversionRounds ==
    \A i \in Converted : output_buffer[i] = RoundedProduct(data_buffer[i])

\* A step in which DirectSound feeder t copies a period into the ring.
DsWrote(t) == backend = "dsound" /\ th[t].pc = "d_write" /\ th'[t].pc = "d_check"

\* C16 as claimed: every write of the DirectSound feeder goes into the half of
\* the ring the play cursor is not in.
C16_WritesFreeHalf ==
    [][\A t \in Threads : DsWrote(t) => th[t].n # playHalf]_vars

\* C17 as claimed: no two consecutive writes of a DirectSound session go into
\* the same half of the ring.
C17_HalvesAlternate ==
    [][\A t \in Threads :
         (DsWrote(t) /\ obs.last_half # -1) => th[t].n # obs.last_half]_vars

\* Steps of DirectSound feeder t: the producer is entered; the wait returns.
DsInvoked(t) == backend = "dsound" /\ th[t].pc = "d_loaded" /\ th'[t].pc = "d_cb"

DsSignalled(t) == backend = "dsound" /\ th[t].pc = "d_wait" /\ th'[t].pc = "d_write"

\* C18 as claimed: the DirectSound feeder invokes the producer only after the
\* completion signal of that iteration has been received.
C18_ProducerAfterSignal ==
    [][\A t \in Threads : DsInvoked(t) => obs.waited]_vars

\* C18, amended: in each iteration the DirectSound feeder first invokes the
\* producer, then waits for a completion signal and determines the half from
\* it, then converts and writes; the producer is invoked before the signal of
\* that iteration is received and the write happens only after both.
C18_ProducerBeforeSignal ==
    [][\A t \in Threads :
         /\ DsInvoked(t) => ~obs.pending /\ ~obs.waited
         /\ DsSignalled(t) => obs.pending /\ ~obs.waited /\ th'[t].n \in {0, 1}
         /\ DsWrote(t) => obs.pending /\ obs.waited]_vars

C18_Witness ==
    /\ backend = "dsound"
    /\ obs.last_half # -1 /\ obs.pending /\ obs.waited
    /\ \E t \in ThreadsOf(cycle) : th[t].pc = "d_write"

\* C19 as claimed: once close or drop of a DirectSound session has stored false
\* into the flag, the feeder leaves its wait and the close returns, whether or
\* not the hardware signals again.
C19_CloseReturnsWithoutSignal ==
    (backend = "dsound" /\ cpc = "join") ~> (cpc = "idle")

\* ALSA feeder t is about to submit its buffer to snd_pcm_writei.
AlsaSubmitting(t) == backend = "alsa" /\ th[t].pc = "a_write"

\* C20: the ALSA feeder submits each converted buffer at most TryCount times;
\* a failed submission is followed by a resubmission of the same buffer, with
\* no invocation of the producer in between, and the first successful
\* submission ends the attempts for that buffer.
C20_BoundedResubmission ==
    /\ [](\A t \in Threads : AlsaSubmitting(t) => th[t].attempt < TryCount)
    /\ [][\A t \in Threads :
            /\ (AlsaSubmitting(t) /\ AlsaSubmitting(t)' /\ th'[t] # th[t])
                 => /\ th'[t].attempt = th[t].attempt + 1
                    /\ obs'.write_failed
                    /\ obs.pending /\ obs'.pending
                    /\ th'[t].len = th[t].len
            /\ (AlsaSubmitting(t) /\ th'[t] # th[t] /\ ~obs'.pending)
                 => th'[t].pc = "a_check" /\ th'[t].attempt = 0
            /\ (backend = "alsa" /\ InCallback(t)' /\ ~InCallback(t))
                 => th[t].attempt = 0 /\ ~AlsaSubmitting(t)]_vars

C20_Witness ==
    /\ obs.write_failed /\ obs.pending
    /\ \E t \in ThreadsOf(cycle) : AlsaSubmitting(t) /\ th[t].attempt = TryCount - 1

\* Every pass of 'try_loop has failed for some buffer of the ALSA session.
AlsaExhausted == backend = "alsa" /\ obs.exhausted

\* C21 as claimed: once the retry bound is exhausted for a buffer the ALSA
\* feeder invokes the producer no more, and the close or drop that joins it
\* observes an abnormal end of the thread.
C21_ExhaustionIsFatal ==
    /\ [][AlsaExhausted => ~InvocationBegins]_vars
    /\ []((AlsaExhausted /\ ShutdownEnded /\ DroppedSession)
            => obs.joined \in {"err", "panic"})

\* ALSA feeder t takes the step in which it reads its flag, and reads false.
AlsaReadsFalse(t) ==
    /\ backend = "alsa" /\ th[t].pc = "a_check" /\ th'[t] # th[t]
    /\ ~is_running[th[t].session]

\* C22: an ALSA feeder that has read its flag as false exits in that step with
\* a normal result; it enters the producer no more and submits nothing more to
\* the native write, and a thread that has exited takes no further step of the
\* loop.
C22_NothingAfterFlagReadFalse ==
    [][\A t \in Threads :
         /\ AlsaReadsFalse(t)
              => /\ Terminated(t)' /\ th'[t].result = "ok"
                 /\ invoked' = invoked /\ obs' = obs
         /\ (backend = "alsa" /\ Terminated(t))
              => /\ Terminated(t)'
                 /\ ~(\E u \in Threads : th'[u] # th[u] /\ u # t
                                          /\ th[u].session = th[t].session)]_vars

C22_Witness ==
    /\ backend = "alsa" /\ invoked /\ ~obs.pending /\ ~is_running[cycle]
    /\ cpc = "join"
    /\ \E t \in ThreadsOf(cycle) : Terminated(t) /\ th[t].result = "ok"

\* The PCM device of ALSA session s is closed in this step.
AlsaDeviceCloses(s) ==
    /\ backend = "alsa"
    /\ <<s, "playback_device">> \in live /\ <<s, "playback_device">> \notin live'

\* C23: the PCM device of an ALSA session is closed only by the Drop that has
\* stored false into the flag and joined the feeder, and only once the feeder
\* has exited; no feeder is ever inside the loop, about to invoke, write or
\* recover, on a device that has been closed.
C23_CloseAfterJoin ==
    /\ [][\A s \in Sessions :
            AlsaDeviceCloses(s)
                => /\ ~is_running[s]
                   /\ cpc = "join" /\ cpc' = "idle"
                   /\ \A t \in ThreadsOf(s) : Terminated(t)]_vars
    /\ [](\A t \in Threads :
            (backend = "alsa" /\ th[t].pc \in {"a_check", "a_loaded", "a_cb", "a_write"})
                => <<th[t].session, "playback_device">> \in live)

C23_Witness ==
    /\ backend = "alsa" /\ invoked /\ ShutdownReturned /\ DroppedSession
    /\ <<cycle, "playback_device">> \in Range(freed)
    /\ <<cycle, "playback_device">> \notin live
    /\ \A t \in ThreadsOf(cycle) : Terminated(t)

\* The closure of PulseAudio feeder t returns Ok(()) from a write request.
PaRequestServed(t) ==
    /\ backend = "pulse"
    /\ th[t].pc = "p_wcb" /\ th[t].n = 0 /\ th'[t].pc = "p_iter"

\* C24 as claimed: when the PulseAudio feeder has served a write request for n
\* bytes, the native writes it issued for the request amount to at least n.
C24_RequestSatisfied ==
    [][\A t \in Threads : PaRequestServed(t) => obs.owed <= 0]_vars

\* PulseAudio feeder t takes a step inside write_cb.
InTrampoline(t) ==
    /\ backend = "pulse" /\ th'[t] # th[t]
    /\ th[t].pc \in {"p_wcb", "p_cb"}

\* C25: whatever happens inside write_cb, the trampoline returns to the
\* library: the feeder thread does not end inside it and no guard of run is
\* dropped; a panic of the producer leaves Panicked in the result slot, and a
\* failed native write leaves PulseError there.
C25_TrampolineCatches ==
    [][\A t \in Threads :
         /\ InTrampoline(t)
              => /\ th'[t].pc \in {"p_wcb", "p_cb", "p_iter"}
                 /\ live' = live /\ defers' = defers
                 /\ (th[t].pc = "p_cb" /\ th'[t].pc = "p_iter")
                      => state' \in {"PulseError", "Panicked"}
         /\ (backend = "pulse" /\ th[t].pc = "p_iter" /\ state' # state)
              => ~Terminated(t)' /\ state' = "Panicked"]_vars

C25_Witness ==
    /\ backend = "pulse" /\ state = "Panicked" /\ obs.cb_panicked
    /\ \E t \in ThreadsOf(cycle) : th[t].pc = "p_iter"

\* The result slot holds a failure captured by write_cb.
FailureCaptured == backend = "pulse" /\ state \in {"PulseError", "Panicked"}

\* PulseAudio feeder t returns from the pump or reads the slot after it.
PaLeavesPump(t) == th[t].pc \in {"p_iter", "p_post"} /\ th'[t].pc \notin {"p_iter", "p_post"}

\* C26 as claimed: a failure captured by write_cb stays in the result slot
\* until the feeder reads it after the pump, and the feeder then ends with that
\* failure as its result: an error for PulseError, the panic for Panicked.
C26_CapturedFailureKept ==
    [][\A t \in Threads :
         /\ (FailureCaptured /\ th[t].pc \in {"p_iter", "p_wcb", "p_cb"}
                             /\ th'[t].pc \in {"p_iter", "p_wcb", "p_cb"})
              => state' = state
         /\ (FailureCaptured /\ PaLeavesPump(t))
              => /\ Terminated(t)'
                 /\ th'[t].result = IF state = "Panicked" THEN "panic" ELSE "err"]_vars

\* PulseAudio feeder t connects its stream: the last step of the setup.
PaConnects(t) == backend = "pulse" /\ th[t].pc = "p_setup" /\ th'[t].pc = "p_check"

\* C27: the PulseAudio stream is corked when it is connected, and within a
\* session it is uncorked only by a step of the feeder thread after a pump of
\* the main loop, which the feeder reaches only once the context has been
\* reported ready and the stream has been connected.
C27_UncorkedAfterReady ==
    [][/\ \A t \in Threads : PaConnects(t) => corked' /\ ready'
       /\ (backend = "pulse" /\ cycle' = cycle /\ corked /\ ~corked')
            => /\ ready
               /\ \E t \in ThreadsOf(cycle) :
                    /\ th[t].pc = "p_post" /\ th'[t] # th[t]
                    /\ \A u \in Threads \ {t} : th'[u] = th[u]
               /\ UNCHANGED callerVars]_vars

C27_Witness ==
    /\ backend = "pulse" /\ ready /\ ~corked
    /\ <<cycle, "stream">> \in live
    /\ \E t \in ThreadsOf(cycle) : th[t].pc = "p_check"

\* C28 as claimed: after the flag of a PulseAudio session has been set false
\* its feeder completes at most one further pump of the main loop, whether it
\* is connecting or playing.
C28_OnePumpAfterFlag ==
    backend = "pulse" => obs.pumps <= 1

\* C29 as claimed: when the feeder thread joined by a close or drop had ended
\* with a fatal error, an Err result or a panic, the caller is told: the source
\* writes no log, so the close or drop itself ends with the failure.
C29_FatalErrorSurfaces ==
    (/\ backend \in ThreadBackends
     /\ ShutdownEnded /\ DroppedSession
     /\ obs.joined \in {"err", "panic"})
        => cres = "panic"

\* Feeder t takes the step of a native write: snd_pcm_writei, or Lock and
\* Unlock of the DirectSound buffer.
NativeWriteStep(t) ==
    /\ backend \in {"alsa", "dsound"}
    /\ th[t].pc \in {"a_write", "d_write"} /\ th'[t] # th[t]

\* C30 as claimed: a native write or lock that reports an error does not end
\* the feeder thread, unless the retries for the buffer are exhausted.
C30_TransientErrorsAbsorbed ==
    [][\A t \in Threads :
         NativeWriteStep(t) => (~Terminated(t)' \/ obs'.exhausted)]_vars

\* The native callback of thread t returns in this step.
NativeCallbackReturns(t) ==
    /\ backend \in {"aaudio", "coreaudio"}
    /\ th[t].pc \in {"q_loop", "c_cb"} /\ th'[t].pc = "n_idle"

\* The producer is entered by native thread t in this step.
NativeInvokes(t) ==
    /\ backend \in {"aaudio", "coreaudio"}
    /\ ~InCallback(t) /\ InCallback(t)'

\* C31 as claimed: every invocation of the native callback of AAudio and
\* CoreAudio has invoked the producer exactly once when it returns.
C31_OneInvocationPerCallback ==
    [][\A t \in Threads : NativeCallbackReturns(t) => obs.calls = 1]_vars

\* C31, amended: every producer invocation by a native callback is on a
\* period-sized buffer; a CoreAudio callback invokes the producer exactly once
\* and fills its native buffer from that period; an AAudio callback invokes
\* the producer once for each period its queue is short of the requested
\* frames, possibly not at all, and returns the requested samples from the
\* queue.
C31_InvocationsAsNeeded ==
    [][\A t \in Threads :
         /\ NativeInvokes(t) => th'[t].len = PeriodLen(params)
         /\ (NativeInvokes(t) /\ backend = "aaudio")
              => /\ th[t].n > samples_queue \div params.channels_count
                 /\ samples_queue' = samples_queue + PeriodLen(params)
         /\ (NativeCallbackReturns(t) /\ backend = "coreaudio") => obs.calls = 1
         /\ (NativeCallbackReturns(t) /\ backend = "aaudio")
              => /\ samples_queue >= th[t].n * params.channels_count
                 /\ samples_queue' = samples_queue - th[t].n * params.channels_count]_vars

C31_Witness ==
    /\ backend = "aaudio" /\ obs.calls = 2
    /\ \E t \in ThreadsOf(cycle) : th[t].pc = "n_idle"

\* C32 as claimed: the i-th sample the producer wrote is the i-th sample
\* delivered to the native device.
C32_OrderPreserved ==
    \A i \in 1..Len(output_data) : output_data[i] = i

\* The native stream of session s is released in this step.
NativeStreamReleased(s) ==
    /\ backend \in {"aaudio", "coreaudio"}
    /\ \E r \in {"stream", "queue"} : <<s, r>> \in live /\ <<s, r>> \notin live'

\* C33 as claimed: the Drop of an AAudio or CoreAudio session releases the
\* native stream only having stopped it, and once the stream has been stopped
\* the producer is not being invoked.
C33_StopThenRelease ==
    /\ [][\A s \in Sessions : NativeStreamReleased(s) => obs'.stopped]_vars
    /\ []((backend \in {"aaudio", "coreaudio"} /\ obs.stopped) => ~Invoking)

\* C34: in an ALSA or DirectSound session at most one invocation of the
\* producer begins after the store of false into the session's flag.
C34_OneLateInvocation ==
    backend \in {"alsa", "dsound"} => obs.late <= 1

C34_Witness ==
    /\ backend \in {"alsa", "dsound"} /\ obs.late = 1
    /\ ShutdownReturned /\ DroppedSession /\ FeederEnded

\* The native device handle that the Drop of a thread-backed session releases.
DeviceHandle == IF backend = "alsa" THEN "playback_device" ELSE "direct_sound"

\* C35 as claimed: when the feeder thread of an ALSA or DirectSound session has
\* ended by a panic, the close or drop of the session still releases the native
\* device: once it has ended, by returning or by panicking, the device handle
\* of the session is no longer live.
C35_ReleasedAfterFeederPanic ==
    (/\ backend \in {"alsa", "dsound"}
     /\ ShutdownEnded /\ DroppedSession
     /\ obs.joined = "panic")
        => <<cycle, DeviceHandle>> \notin live

\* pulse.rs 220, 147, 94, 82: the defer guards of run, last created first.
PaDropOrder == <<"write_cb", "stream", "context", "mainloop">>

PaRank(name) == CHOOSE i \in 1..Len(PaDropOrder) : PaDropOrder[i] = name

\* The PulseAudio feeder function of thread t is left in this step.
PaLeaves(t) ==
    /\ backend = "pulse"
    /\ th[t].pc \in {"p_init", "p_ctx", "p_setup", "p_check", "p_iter", "p_post"}
    /\ th'[t].pc = "done"

\* C36: on every exit of the PulseAudio feeder function, by return, by early
\* error or by the re-raised panic, the release calls it makes are those of the
\* native objects acquired so far, each once, the object acquired last first:
\* the write callback is unregistered before anything else is dropped, then
\* the stream, the context and the main loop are released; nothing of the
\* session stays live and no guard is left.
C36_ReleasedInReverse ==
    /\ [][\A t \in Threads : PaLeaves(t) =>
            LET s == th[t].session
                rel == SubSeq(freed', Len(freed) + 1, Len(freed'))
            IN /\ Len(freed') >= Len(freed)
               /\ SubSeq(freed', 1, Len(freed)) = freed
               /\ \A i \in 1..Len(rel) :
                    rel[i][1] = s /\ rel[i][2] \in Range(PaDropOrder)
               /\ \A i, j \in 1..Len(rel) :
                    i < j => PaRank(rel[i][2]) < PaRank(rel[j][2])
               /\ \A i \in 1..Len(rel) : \A k \in 1..Len(PaDropOrder) :
                    k > PaRank(rel[i][2]) => <<s, PaDropOrder[k]>> \in Range(rel)
               /\ LiveOf(s) \subseteq Range(rel)
               /\ Held(s, Range(defers)) \subseteq Range(rel)
               /\ LiveOf(s)' = {}
               /\ defers' = <<>>]_vars
    /\ [](backend = "pulse" => NoDuplicates(freed))

C36_Witness ==
    /\ backend = "pulse"
    /\ \E t \in ThreadsOf(cycle) : Terminated(t) /\ th[t].result = "panic"
    /\ freed = [i \in 1..Len(PaDropOrder) |-> <<cycle, PaDropOrder[i]>>]
    /\ LiveOf(cycle) = {}

\* The output loop of the AAudio data callback runs in this step of thread t.
AaOutputLoopRuns(t) ==
    /\ backend = "aaudio"
    /\ th[t].pc = "q_loop" /\ th'[t].pc = "n_idle"

\* C37: the AAudio queue never underflows: whatever frame counts the callbacks
\* request, when the output loop runs the queue holds at least
\* num_samples_per_channel * channels_count samples, and the length of the
\* queue never falls below zero.
C37_NoUnderflow ==
    /\ [][\A t \in Threads : AaOutputLoopRuns(t)
            => /\ params.channels_count >= 1
               /\ samples_queue >= th[t].n * params.channels_count
               /\ samples_queue' >= 0]_vars
    /\ [](samples_queue >= 0)

C37_Witness ==
    /\ backend = "aaudio" /\ obs.calls >= 1
    /\ \E t \in ThreadsOf(cycle) :
         /\ th[t].pc = "q_loop" /\ th[t].n = MaxReqFrames
         /\ ~AaQueueShort(th[t].n, samples_queue, params)
         /\ samples_queue = th[t].n * params.channels_count

\* C38: after every return of the AAudio data callback the length of the queue
\* is a multiple of channels_count and strictly less than one period,
\* channel_sample_count * channels_count; the queue does not grow without bound.
C38_QueueBounded ==
    backend = "aaudio" =>
        \A t \in ThreadsOf(cycle) : th[t].pc = "n_idle" =>
            /\ samples_queue % params.channels_count = 0
            /\ samples_queue < PeriodLen(params)

C38_Witness ==
    /\ backend = "aaudio" /\ obs.calls >= 1
    /\ samples_queue > 0
    /\ \E t \in ThreadsOf(cycle) : th[t].pc = "n_idle"

====
